---------------------------- MODULE Spec2Model ----------------------------
(***************************************************************************)
(* buffer2: a resizable byte buffer (buffer2.c / buffer2.h) and its Lua    *)
(* binding (wrapper.c).                                                    *)
(*                                                                         *)
(* Spec      : a C caller driving the engine on one buffer_t: one          *)
(*             initialisation, then resizes / enlarges / byte writes,      *)
(*             then one buffer_destroyData, over an explicit heap.         *)
(* IndexSpec, TypeSpec, SizeSpec, CallocSpec, StoreSpec, TagSpec,           *)
(* LengthSpec, CodecSpec, IterSpec, OwnedSpec : Lua scripts driving the    *)
(*             binding on one buffer, over the same engine and heap.       *)
(*                                                                         *)
(* A C int is a TLA+ integer in INT_MIN..INT_MAX; int arithmetic wraps     *)
(* modulo 2^32 (what the Makefile's gcc build produces on overflow).       *)
(***************************************************************************)
EXTENDS Integers, Sequences, FiniteSets, TLC

VARIABLES buf, heap, phase, last

vars == <<buf, heap, phase, last>>

---------------------------------------------------------------------------
(* Bounds of the model *)

\* sizes the C caller allocates and resizes to
MaxSize == 3

\* the first 8 * MaxWords bytes of a block are tracked one by one; the bytes
\* after them are only known to be all zero or not
MaxWords == 1

\* number of memory blocks (malloc / calloc / realloc results and the
\* foreign region handed to wrap) one run can obtain
MaxBlocks == 2

---------------------------------------------------------------------------
(* C int arithmetic *)

INT_MAX == 2147483647

INT_MIN == -INT_MAX - 1

Min(a, b) == IF a <= b THEN a ELSE b

\* a + b as a C int
AddInt(a, b) ==
    IF b > 0 /\ a > INT_MAX - b THEN (a - INT_MAX - 1) + (b - INT_MAX - 1)
    ELSE IF b < 0 /\ a < INT_MIN - b THEN (a + INT_MAX + 1) + (b + INT_MAX + 1)
    ELSE a + b

\* -a as a C int
NegInt(a) == IF a = INT_MIN THEN INT_MIN ELSE -a

RECURSIVE MulNat(_, _)
\* a * b as a C int, b >= 0: double and add, every step wrapped
MulNat(a, b) ==
    IF b = 0 THEN 0
    ELSE LET h == MulNat(a, b \div 2)
             d == AddInt(h, h)
         IN  IF b % 2 = 1 THEN AddInt(d, a) ELSE d

\* a * b as a C int
MulInt(a, b) ==
    IF b >= 0 THEN MulNat(a, b)
    ELSE IF b = INT_MIN THEN (IF a % 2 = 0 THEN 0 ELSE INT_MIN)
    ELSE NegInt(MulNat(a, -b))

\* for a, b > 0: the product a * b is not representable as a C int
MulOverflows(a, b) == a > INT_MAX \div b

\* for a, b > 0: the byte count a * b as a size_t, clipped at INT_MAX
\* (the engine only ever compares a block's length with an int)
SizeProduct(a, b) == IF MulOverflows(a, b) THEN INT_MAX ELSE a * b

---------------------------------------------------------------------------
(* Bits, bytes and IEEE-754 patterns.  A 32-bit word is the TLA+ integer in *)
(* INT_MIN..INT_MAX with the same two's complement pattern.                 *)

RECURSIVE BitAnd(_, _)
\* a & b
BitAnd(a, b) ==
    IF a = 0 \/ b = 0 THEN 0
    ELSE IF a = -1 THEN b
    ELSE IF b = -1 THEN a
    ELSE 2 * BitAnd(a \div 2, b \div 2)
             + (IF a % 2 = 1 /\ b % 2 = 1 THEN 1 ELSE 0)

RECURSIVE BitOr(_, _)
\* a | b
BitOr(a, b) ==
    IF a = 0 THEN b
    ELSE IF b = 0 THEN a
    ELSE IF a = -1 \/ b = -1 THEN -1
    ELSE 2 * BitOr(a \div 2, b \div 2)
             + (IF a % 2 = 1 \/ b % 2 = 1 THEN 1 ELSE 0)

\* a << n, for a small a >= 0
ShiftLeft(a, n) == a * 2^n

\* the four bytes of a 32-bit word, lowest first (the build is little-endian)
Bytes32(x) ==
    <<x % 256, (x \div 256) % 256, (x \div 65536) % 256,
      (x \div 16777216) % 256>>

\* the 32-bit word made of four bytes, lowest first
Word32(bs) ==
    bs[1] + 256 * bs[2] + 65536 * bs[3]
          + 16777216 * (IF bs[4] >= 128 THEN bs[4] - 256 ELSE bs[4])

RECURSIVE Log2(_)
\* position of the highest set bit of a > 0
Log2(a) == IF a < 2 THEN 0 ELSE 1 + Log2(a \div 2)

\* the 52-bit mantissa whose top k bits are f (0 <= f < 2^k, k <= 31), as
\* its upper 20 bits and its lower 32-bit word
Mant52(f, k) ==
    IF k <= 20 THEN [hi |-> f * 2^(20 - k), lo |-> 0]
    ELSE LET d == k - 20
             r == f % 2^d
         IN  [hi |-> f \div 2^d,
              lo |-> IF r >= 2^(d - 1)
                     THEN ((r - 2^d) * 2^(31 - d)) * 2
                     ELSE (r * 2^(31 - d)) * 2]

\* (double) n for an integer n that fits 32 bits: the two words of the double
IntToDouble(n) ==
    IF n = 0 THEN [hi |-> 0, lo |-> 0]
    ELSE IF n = INT_MIN THEN [hi |-> INT_MIN + 1054 * 2^20, lo |-> 0]
    ELSE LET a == IF n < 0 THEN -n ELSE n
             k == Log2(a)
             mm == Mant52(a - 2^k, k)
         IN  [hi |-> (IF n < 0 THEN INT_MIN ELSE 0) + (1023 + k) * 2^20 + mm.hi,
              lo |-> mm.lo]

\* (double) f for the float with word x: the two words of the double
FloatToDouble(x) ==
    LET sgn == IF x < 0 THEN INT_MIN ELSE 0
        u == x - sgn
        e == u \div 2^23
        m == u % 2^23
        mm == Mant52(m, 23)
    IN  IF e = 0 /\ m = 0 THEN [hi |-> sgn, lo |-> 0]
        ELSE IF e = 0
        THEN LET k == Log2(m)
                 dm == Mant52(m - 2^k, k)
             IN  [hi |-> sgn + (874 + k) * 2^20 + dm.hi, lo |-> dm.lo]
        ELSE IF e = 255
        THEN [hi |-> sgn + 2047 * 2^20
                       + (IF m = 0 THEN 0 ELSE BitOr(mm.hi, 2^19)),
              lo |-> mm.lo]
        ELSE [hi |-> sgn + (e + 896) * 2^20 + mm.hi, lo |-> mm.lo]

\* (float) d for the double with words hi, lo, rounding to nearest even: the
\* word of the float.  A double below the float's normal range other than
\* zero is not converted (no value the scripts store is that small).
DoubleToFloat(hi, lo) ==
    LET sgn == IF hi < 0 THEN INT_MIN ELSE 0
        u == hi - sgn
        e == u \div 2^20
        m == (u % 2^20) * 8 + ((lo \div 2^29) % 8)
        rem == lo % 2^29
        up == rem > 2^28 \/ (rem = 2^28 /\ m % 2 = 1)
    IN  CASE e = 0 -> sgn
          [] e = 2047 ->
                sgn + 255 * 2^23
                    + (IF u % 2^20 = 0 /\ lo = 0 THEN 0 ELSE BitOr(m, 2^22))
          [] e > 1150 /\ e < 2047 -> sgn + 255 * 2^23
          [] e >= 897 /\ e <= 1150 ->
                sgn + (e - 896) * 2^23 + m + (IF up THEN 1 ELSE 0)

\* lua_Number to lua_Integer for the double with words hi, lo: [ok, n]; ok
\* iff the double is an integer, n its value.  A double of magnitude 2^31
\* or more is not converted (no value the scripts store is that large).
DoubleToInt(hi, lo) ==
    LET sgn == IF hi < 0 THEN INT_MIN ELSE 0
        u == hi - sgn
        e == u \div 2^20
        k == e - 1023
        mhi == u % 2^20
        top == lo \div 2^16
        a == IF k <= 20 THEN 2^k + mhi \div 2^(20 - k)
             ELSE 2^k + mhi * 2^(k - 20) + ((top \div 2^(36 - k)) % 2^(k - 20))
        whole == IF k <= 20 THEN lo = 0 /\ mhi % 2^(20 - k) = 0
                 ELSE lo % 2^16 = 0 /\ top % 2^(36 - k) = 0
    IN  CASE e = 0 /\ mhi = 0 /\ lo = 0 -> [ok |-> TRUE, n |-> 0]
          [] e < 1023 /\ ~(e = 0 /\ mhi = 0 /\ lo = 0) -> [ok |-> FALSE, n |-> 0]
          [] e = 2047 -> [ok |-> FALSE, n |-> 0]
          [] e >= 1023 /\ e <= 1053 ->
                IF whole THEN [ok |-> TRUE, n |-> IF hi < 0 THEN -a ELSE a]
                ELSE [ok |-> FALSE, n |-> 0]

---------------------------------------------------------------------------
(* The heap: malloc, calloc, realloc, free *)

NULL == 0

BlockIds == 1..MaxBlocks

\* the values an indeterminate (freshly malloc'ed) byte is sampled from
JunkVals == {0, 170}

\* the values the C caller writes, and the foreign region holds
ByteVals == {7}

NoBlock ==
    [st |-> "unused", origin |-> "none", len |-> 0, data |-> <<>>,
     rest |-> "none", frees |-> 0]

\* what the allocator decides on one call: success or failure, realloc in
\* place or by moving, and the value of the bytes it leaves indeterminate
AllocChoices ==
    [ok : {TRUE}, inplace : BOOLEAN, fill : JunkVals]
        \cup {[ok |-> FALSE, inplace |-> FALSE, fill |-> 0]}

HasFresh(h) == \E p \in BlockIds : h[p].st = "unused"

Fresh(h) == CHOOSE p \in BlockIds : h[p].st = "unused" /\ \A q \in BlockIds : h[q].st = "unused" => p <= q

\* number of tracked bytes of a block of n bytes
Tracked(n) == Min(n, 8 * MaxWords)

\* the tracked bytes of a block of n bytes, all equal to v
Filled(n, v) == [i \in 1..Tracked(n) |-> v]

\* malloc(n), n > 0: [ptr, heap]
malloc(h, n, m) ==
    IF m.ok /\ HasFresh(h)
    THEN LET p == Fresh(h)
         IN  [ptr |-> p,
              heap |-> [h EXCEPT ![p] =
                  [st |-> "live", origin |-> "malloc", len |-> n,
                   data |-> Filled(n, m.fill), rest |-> "indet", frees |-> 0]]]
    ELSE [ptr |-> NULL, heap |-> h]

\* calloc(length, elem), both > 0: [ptr, heap]
calloc(h, length, elem, m) ==
    IF m.ok /\ HasFresh(h)
    THEN LET p == Fresh(h)
             n == SizeProduct(length, elem)
         IN  [ptr |-> p,
              heap |-> [h EXCEPT ![p] =
                  [st |-> "live", origin |-> "calloc", len |-> n,
                   data |-> Filled(n, 0), rest |-> "zero", frees |-> 0]]]
    ELSE [ptr |-> NULL, heap |-> h]

\* free(p)
free(h, p) ==
    IF p = NULL THEN h
    ELSE [h EXCEPT ![p] = [@ EXCEPT !.st = "freed", !.data = <<>>,
                                    !.rest = "none", !.frees = @ + 1]]

\* the contents of block o cut or extended to n bytes
Resized(o, n, fill) ==
    [len |-> n,
     data |-> [i \in 1..Tracked(n) |->
                  IF i <= Len(o.data) THEN o.data[i] ELSE fill],
     rest |-> IF n <= o.len THEN o.rest ELSE "indet"]

\* realloc(p, n), p a live block, n > 0: [ptr, heap]
realloc(h, p, n, m) ==
    LET c == Resized(h[p], n, m.fill)
    IN  IF ~m.ok THEN [ptr |-> NULL, heap |-> h]
        ELSE IF m.inplace \/ ~HasFresh(h)
        THEN [ptr |-> p,
              heap |-> [h EXCEPT ![p] = [@ EXCEPT !.len = c.len,
                                           !.data = c.data, !.rest = c.rest]]]
        ELSE LET q == Fresh(h)
             IN  [ptr |-> q,
                  heap |-> [free(h, p) EXCEPT ![q] =
                      [st |-> "live", origin |-> "realloc", len |-> c.len,
                       data |-> c.data, rest |-> c.rest, frees |-> 0]]]

---------------------------------------------------------------------------
(* The engine: buffer2.c *)

\* a buffer_t whose fields were never written
RawBuf == [size |-> 0, alloc |-> 0, user |-> 0, ptr |-> NULL]

\* each function returns [buf, heap, ret]; ret of a function returning
\* buffer_t* is TRUE for buf and FALSE for NULL; gone says the struct was freed

\* buffer_allocData forgetting to reset size and alloc when malloc fails
buffer_allocData_keepsSize(b, h, size, destroy, m) ==
    LET r == malloc(h, size, m)
        b1 == [size |-> size, alloc |-> size, user |-> 0, ptr |-> r.ptr]
    IN  [buf |-> b1, heap |-> r.heap, ret |-> r.ptr # NULL,
         gone |-> r.ptr = NULL /\ destroy # 0]

buffer_allocData(b, h, size, destroy, m) ==
    LET r == malloc(h, size, m)
        b1 == [size |-> size, alloc |-> size, user |-> 0, ptr |-> r.ptr]
    IN  IF r.ptr = NULL
        THEN IF destroy # 0
             THEN [buf |-> b1, heap |-> r.heap, ret |-> FALSE, gone |-> TRUE]
             ELSE [buf |-> [b1 EXCEPT !.size = 0, !.alloc = 0],
                   heap |-> r.heap, ret |-> FALSE, gone |-> FALSE]
        ELSE [buf |-> b1, heap |-> r.heap, ret |-> TRUE, gone |-> FALSE]

buffer_callocData(b, h, length, elem, destroy, m) ==
    LET sz == MulInt(length, elem)
        r == calloc(h, length, elem, m)
        b1 == [size |-> sz, alloc |-> sz, user |-> 0, ptr |-> r.ptr]
    IN  IF r.ptr = NULL
        THEN IF destroy # 0
             THEN [buf |-> b1, heap |-> r.heap, ret |-> FALSE, gone |-> TRUE]
             ELSE [buf |-> [b1 EXCEPT !.size = 0, !.alloc = 0],
                   heap |-> r.heap, ret |-> FALSE, gone |-> FALSE]
        ELSE [buf |-> b1, heap |-> r.heap, ret |-> TRUE, gone |-> FALSE]

buffer_wrapData(b, h, ptr, size) ==
    [buf |-> [size |-> size, alloc |-> 0, user |-> 0, ptr |-> ptr],
     heap |-> h, ret |-> TRUE, gone |-> FALSE]

buffer_destroyData(b, h) ==
    IF b.alloc # 0 THEN free(h, b.ptr) ELSE h

\* buffer_resize growing an owned buffer with free + malloc: nothing is copied
buffer_resize_noCopy(b, h, size, m) ==
    IF size <= 0 THEN [buf |-> b, heap |-> h, ret |-> 0]
    ELSE IF b.alloc >= size
    THEN [buf |-> [b EXCEPT !.size = size], heap |-> h, ret |-> b.alloc]
    ELSE LET r == malloc(h, size, m)
         IN  IF r.ptr = NULL THEN [buf |-> b, heap |-> h, ret |-> 0]
             ELSE [buf |-> [b EXCEPT !.ptr = r.ptr, !.size = size, !.alloc = size],
                   heap |-> IF b.alloc # 0 THEN free(r.heap, b.ptr) ELSE r.heap,
                   ret |-> size]

\* buffer_resize giving memory back: every change of size is a realloc
buffer_resize_trims(b, h, size, m) ==
    IF size <= 0 THEN [buf |-> b, heap |-> h, ret |-> 0]
    ELSE IF b.alloc = size
    THEN [buf |-> [b EXCEPT !.size = size], heap |-> h, ret |-> b.alloc]
    ELSE LET r == IF b.alloc # 0 THEN realloc(h, b.ptr, size, m)
                  ELSE malloc(h, size, m)
         IN  IF r.ptr = NULL THEN [buf |-> b, heap |-> h, ret |-> 0]
             ELSE [buf |-> [b EXCEPT !.ptr = r.ptr, !.size = size, !.alloc = size],
                   heap |-> r.heap, ret |-> size]

\* buffer_resize lowering the capacity together with the size
buffer_resize_shrinks(b, h, size, m) ==
    IF size <= 0 THEN [buf |-> b, heap |-> h, ret |-> 0]
    ELSE IF b.alloc >= size
    THEN [buf |-> [b EXCEPT !.size = size, !.alloc = size], heap |-> h,
          ret |-> size]
    ELSE LET r == IF b.alloc # 0 THEN realloc(h, b.ptr, size, m)
                  ELSE malloc(h, size, m)
         IN  IF r.ptr = NULL THEN [buf |-> b, heap |-> h, ret |-> 0]
             ELSE [buf |-> [b EXCEPT !.ptr = r.ptr, !.size = size, !.alloc = size],
                   heap |-> r.heap, ret |-> size]

\* buffer_resize comparing the capacity strictly: alloc > size
buffer_resize_strict(b, h, size, m) ==
    IF size <= 0 THEN [buf |-> b, heap |-> h, ret |-> 0]
    ELSE IF b.alloc > size
    THEN [buf |-> [b EXCEPT !.size = size], heap |-> h, ret |-> b.alloc]
    ELSE LET r == IF b.alloc # 0 THEN realloc(h, b.ptr, size, m)
                  ELSE malloc(h, size, m)
         IN  IF r.ptr = NULL THEN [buf |-> b, heap |-> h, ret |-> 0]
             ELSE [buf |-> [b EXCEPT !.ptr = r.ptr, !.size = size, !.alloc = size],
                   heap |-> r.heap, ret |-> size]

\* buffer_resize comparing the capacity with the old size, not the new one
buffer_resize_oldSize(b, h, size, m) ==
    IF size <= 0 THEN [buf |-> b, heap |-> h, ret |-> 0]
    ELSE IF b.alloc >= b.size
    THEN [buf |-> [b EXCEPT !.size = size], heap |-> h, ret |-> b.alloc]
    ELSE LET r == IF b.alloc # 0 THEN realloc(h, b.ptr, size, m)
                  ELSE malloc(h, size, m)
         IN  IF r.ptr = NULL THEN [buf |-> b, heap |-> h, ret |-> 0]
             ELSE [buf |-> [b EXCEPT !.ptr = r.ptr, !.size = size, !.alloc = size],
                   heap |-> r.heap, ret |-> size]

\* ret is the int the function returns
buffer_resize(b, h, size, m) ==
    IF size <= 0 THEN [buf |-> b, heap |-> h, ret |-> 0]
    ELSE IF b.alloc >= size
    THEN [buf |-> [b EXCEPT !.size = size], heap |-> h, ret |-> b.alloc]
    ELSE IF b.alloc # 0
    THEN LET r == realloc(h, b.ptr, size, m)
         IN  IF r.ptr = NULL THEN [buf |-> b, heap |-> h, ret |-> 0]
             ELSE [buf |-> [b EXCEPT !.ptr = r.ptr, !.size = size, !.alloc = size],
                   heap |-> r.heap, ret |-> size]
    ELSE LET r == malloc(h, size, m)
         IN  IF r.ptr = NULL
             THEN [buf |-> [b EXCEPT !.ptr = NULL], heap |-> r.heap, ret |-> 0]
             ELSE [buf |-> [b EXCEPT !.ptr = r.ptr, !.size = size, !.alloc = size],
                   heap |-> r.heap, ret |-> size]

\* buffer_enlarge taking the ammount for the new size
buffer_enlarge_absolute(b, h, ammount, m) ==
    buffer_resize(b, h, ammount, m)

buffer_enlarge(b, h, ammount, m) ==
    buffer_resize(b, h, AddInt(b.size, ammount), m)

\* buffer_setChar(buf, idx, val): ptr[idx] = val, idx counted from 0
buffer_setChar(b, h, idx, val) ==
    [h EXCEPT ![b.ptr].data[idx + 1] = val]

---------------------------------------------------------------------------
(* Spec: a C caller on one buffer_t *)

\* the arguments the caller passes
AllocSizes == 1..MaxSize

CallocArgs == {1, 2, 32768, 65536}

ResizeArgs == (-1)..MaxSize

EnlargeArgs == {-1, 1}

NoCall ==
    [op |-> "none", a |-> 0, b |-> 0, c |-> 0, ret |-> 0, pre |-> RawBuf,
     preHeap |-> [p \in BlockIds |-> NoBlock]]

Init ==
    /\ buf = RawBuf
    /\ heap = [p \in BlockIds |-> NoBlock]
    /\ phase = "raw"
    /\ last = NoCall

AllocData ==
    /\ phase = "raw"
    /\ \E size \in AllocSizes, destroy \in {0, 1}, m \in AllocChoices :
         LET r == buffer_allocData(buf, heap, size, destroy, m)
         IN  /\ buf' = r.buf
             /\ heap' = r.heap
             /\ phase' = IF r.gone THEN "freed" ELSE "live"
             /\ last' = [op |-> "alloc", a |-> size, b |-> 0, c |-> destroy,
                         ret |-> IF r.ret THEN 1 ELSE 0,
                         pre |-> buf, preHeap |-> heap]

CallocData ==
    /\ phase = "raw"
    /\ \E length \in CallocArgs, elem \in CallocArgs, destroy \in {0, 1},
          m \in AllocChoices :
         LET r == buffer_callocData(buf, heap, length, elem, destroy, m)
         IN  /\ buf' = r.buf
             /\ heap' = r.heap
             /\ phase' = IF r.gone THEN "freed" ELSE "live"
             /\ last' = [op |-> "calloc", a |-> length, b |-> elem, c |-> destroy,
                         ret |-> IF r.ret THEN 1 ELSE 0,
                         pre |-> buf, preHeap |-> heap]

\* the caller owns a region of size bytes and wraps the buffer around it
WrapData ==
    /\ phase = "raw"
    /\ \E size \in AllocSizes, v \in ByteVals :
         LET p == Fresh(heap)
             h1 == [heap EXCEPT ![p] =
                      [st |-> "live", origin |-> "foreign", len |-> size,
                       data |-> Filled(size, v), rest |-> "indet", frees |-> 0]]
             r == buffer_wrapData(buf, h1, p, size)
         IN  /\ buf' = r.buf
             /\ heap' = r.heap
             /\ phase' = "live"
             /\ last' = [op |-> "wrap", a |-> size, b |-> p, c |-> 0, ret |-> 1,
                         pre |-> buf, preHeap |-> h1]

Resize ==
    /\ phase = "live"
    /\ \E size \in ResizeArgs, m \in AllocChoices :
         LET r == buffer_resize(buf, heap, size, m)
         IN  /\ buf' = r.buf
             /\ heap' = r.heap
             /\ phase' = phase
             /\ last' = [op |-> "resize", a |-> size, b |-> 0, c |-> 0, ret |-> r.ret,
                         pre |-> buf, preHeap |-> heap]

Enlarge ==
    /\ phase = "live"
    /\ \E d \in EnlargeArgs, m \in AllocChoices :
         LET r == buffer_enlarge(buf, heap, d, m)
         IN  /\ AddInt(buf.size, d) \in ResizeArgs
             /\ buf' = r.buf
             /\ heap' = r.heap
             /\ phase' = phase
             /\ last' = [op |-> "enlarge", a |-> AddInt(buf.size, d), b |-> d,
                         c |-> 0, ret |-> r.ret,
                         pre |-> buf, preHeap |-> heap]

\* the caller stores a byte inside the buffer's logical extent
SetChar ==
    /\ phase = "live"
    /\ buf.ptr # NULL
    /\ \E idx \in 0..(MaxSize - 1), val \in ByteVals :
         /\ idx < buf.size
         /\ idx < Len(heap[buf.ptr].data)
         /\ heap' = buffer_setChar(buf, heap, idx, val)
         /\ buf' = buf
         /\ phase' = phase
         /\ last' = [op |-> "setchar", a |-> idx, b |-> val, c |-> 0, ret |-> 0,
                     pre |-> buf, preHeap |-> heap]

DestroyData ==
    /\ phase = "live"
    /\ heap' = buffer_destroyData(buf, heap)
    /\ buf' = buf
    /\ phase' = "dead"
    /\ last' = [op |-> "destroy", a |-> 0, b |-> 0, c |-> 0, ret |-> 0,
                pre |-> buf, preHeap |-> heap]

Next ==
    \/ WrapData
    \/ AllocData
    \/ CallocData
    \/ Resize
    \/ Enlarge
    \/ SetChar
    \/ DestroyData

Spec == Init /\ [][Next]_vars

---------------------------------------------------------------------------
(* Claims about the engine, checked under Spec *)

\* the last call handed size last.a to buffer_resize
ResizeCall == last.op \in {"resize", "enlarge"}

\* the last buffer_resize call tried to allocate and the allocator failed
AllocFailed ==
    /\ ResizeCall
    /\ last.a > 0
    /\ last.pre.alloc < last.a
    /\ last.ret = 0

\* blocks the engine obtained from malloc / calloc / realloc
EngineBlocks == {p \in BlockIds : heap[p].origin \in {"malloc", "calloc", "realloc"}}

\* byte i (from 0) of buffer b over heap h, for a tracked byte of a live block
HasByte(b, h, i) == b.ptr # NULL /\ i < b.size /\ i < Len(h[b.ptr].data)

ByteAt(b, h, i) == h[b.ptr].data[i + 1]

\* every tracked byte below the old size kept its value across the last call
OldBytesKept ==
    \A i \in 0..(8 * MaxWords - 1) :
        HasByte(last.pre, last.preHeap, i) =>
            /\ buf.ptr # NULL
            /\ i < Len(heap[buf.ptr].data)
            /\ ByteAt(buf, heap, i) = ByteAt(last.pre, last.preHeap, i)

\* C1: over one initialisation, any resizes / enlarges and one destroyData,
\* every block the engine obtained is released exactly once (never twice,
\* and once by the time the buffer is destroyed), is not the ptr of the
\* initialised buffer after its release, and the foreign region handed to
\* wrap is never released by the engine.
C1_ReleasedExactlyOnce ==
    /\ \A p \in BlockIds : heap[p].frees <= 1
    /\ \A p \in BlockIds : heap[p].origin = "foreign" => heap[p].frees = 0
    /\ phase = "live" /\ buf.ptr # NULL => heap[buf.ptr].st = "live"
    /\ phase = "dead" => \A p \in EngineBlocks : heap[p].frees = 1

\* C2 as stated: a successful resize beyond the capacity leaves
\* size == alloc == n and keeps every byte below the old size, for owned,
\* wrapped and zero-capacity buffers alike.
C2_GrowKeepsBytes_AnyBuffer ==
    ResizeCall /\ last.a > last.pre.alloc /\ last.ret # 0 =>
        /\ buf.size = last.a
        /\ buf.alloc = last.a
        /\ OldBytesKept

\* C2 amended: a successful resize beyond the capacity leaves
\* size == alloc == n; it keeps every byte below the old size when the
\* buffer had a capacity (alloc # 0, the realloc path).  With alloc == 0 the
\* block is a fresh malloc and nothing is copied into it.
C2_GrowKeepsBytes_Owned ==
    ResizeCall /\ last.a > last.pre.alloc /\ last.ret # 0 =>
        /\ buf.size = last.a
        /\ buf.alloc = last.a
        /\ last.ret = last.a
        /\ last.pre.alloc # 0 => OldBytesKept

\* a moving realloc carried a byte the caller wrote into the new block
C2_Witness ==
    /\ ResizeCall /\ last.a > last.pre.alloc /\ last.ret # 0
    /\ last.pre.alloc > 0
    /\ buf.ptr # last.pre.ptr
    /\ HasByte(last.pre, last.preHeap, 0)
    /\ ByteAt(last.pre, last.preHeap, 0) \in ByteVals
    /\ ByteAt(buf, heap, 0) \in ByteVals

\* C3: when buffer_resize returns 0 because the allocation failed, size,
\* alloc, user and ptr are what they were before the call, whether alloc > 0
\* or alloc == 0.
C3_FailedResizeKeepsFields ==
    AllocFailed => buf = last.pre

\* C4: for 0 < n <= alloc, buffer_resize succeeds, sets size to n and leaves
\* alloc, ptr, user and the heap (every block and every byte) unchanged.
C4_ResizeWithinCapacity ==
    ResizeCall /\ 0 < last.a /\ last.a <= last.pre.alloc =>
        /\ last.ret # 0
        /\ buf = [last.pre EXCEPT !.size = last.a]
        /\ heap = last.preHeap

\* a resize within the capacity that changed the size
C4_Witness ==
    /\ ResizeCall /\ 0 < last.a /\ last.a < last.pre.alloc
    /\ last.pre.size # last.a
    /\ buf.size = last.a
    /\ buf.ptr # NULL

\* C5 as stated: buffer_resize(b, b.size) with size > 0 changes nothing, for
\* owned and wrapped buffers alike.
C5_ResizeToSize_AnyBuffer ==
    ResizeCall /\ last.a = last.pre.size /\ last.pre.size > 0 =>
        /\ buf = last.pre
        /\ heap = last.preHeap

\* C5 amended: buffer_resize(b, b.size) changes nothing when the buffer is
\* owned (alloc >= size > 0).
C5_ResizeToSize_Owned ==
    ResizeCall /\ last.a = last.pre.size /\ last.pre.size > 0
               /\ last.pre.alloc >= last.pre.size =>
        /\ last.ret # 0
        /\ buf = last.pre
        /\ heap = last.preHeap

\* buffer_resize(b, b.size) was called on a full owned buffer (size == alloc)
C5_Witness ==
    /\ last.op = "resize" /\ last.a = last.pre.size
    /\ last.pre.size > 0
    /\ last.pre.alloc = last.pre.size
    /\ last.ret # 0

\* C6: after an initialisation and any resizes / enlarges, alloc > 0 implies
\* alloc >= size.
C6_CapacityCoversSize ==
    phase \in {"live", "dead"} /\ buf.alloc > 0 => buf.alloc >= buf.size

\* a resize grew an owned buffer beyond its capacity
C6_Witness ==
    /\ ResizeCall /\ last.ret # 0
    /\ last.pre.alloc > 0
    /\ last.a > last.pre.alloc
    /\ buf.alloc = buf.size

\* C7: a successful buffer_callocData(buf, length, elem, _) with length > 0
\* and elem > 0 leaves size == alloc == the mathematical product
\* length * elem, user == 0 and every one of those bytes zero.
C7_CallocSizeIsProduct ==
    last.op = "calloc" /\ last.ret = 1 =>
        /\ ~MulOverflows(last.a, last.b)
        /\ buf.size = last.a * last.b
        /\ buf.alloc = buf.size
        /\ buf.user = 0
        /\ buf.ptr # NULL
        /\ heap[buf.ptr].len = buf.size
        /\ \A i \in 1..Len(heap[buf.ptr].data) : heap[buf.ptr].data[i] = 0
        /\ heap[buf.ptr].rest = "zero"

\* C8: buffer_allocData(buf, size, destroy) with size > 0 either succeeds
\* (returns buf, size == alloc == size, user == 0, ptr a fresh block of size
\* bytes) or fails (returns NULL, no block obtained; with destroy == 0 the
\* struct is left with size == alloc == 0, with destroy # 0 the struct is
\* freed); buffer_destroyData on the struct a failed call left releases
\* nothing.
C8_AllocDataOutcomes ==
    /\ last.op = "alloc" /\ last.ret = 1 =>
          /\ phase = "live"
          /\ buf.size = last.a /\ buf.alloc = last.a /\ buf.size > 0
          /\ buf.user = 0
          /\ buf.ptr # NULL
          /\ heap[buf.ptr].st = "live" /\ heap[buf.ptr].len = last.a
    /\ last.op = "alloc" /\ last.ret = 0 =>
          /\ heap = last.preHeap
          /\ last.c = 0 => phase = "live" /\ buf.size = 0 /\ buf.alloc = 0
          /\ last.c # 0 => phase = "freed"
    /\ last.op = "destroy" /\ last.pre.ptr = NULL =>
          /\ last.pre.alloc = 0
          /\ heap = last.preHeap

\* buffer_destroyData ran on the struct a failed buffer_allocData left
C8_Witness ==
    /\ last.op = "destroy"
    /\ last.pre = [size |-> 0, alloc |-> 0, user |-> 0, ptr |-> NULL]
    /\ \A p \in BlockIds : heap[p].st = "unused"

---------------------------------------------------------------------------
(* Lua values and the Lua C API (Lua 5.3, 64-bit lua_Integer, double       *)
(* lua_Number, LP64 build: every type of wrapper.c is available)           *)

\* A Lua value: t is its kind.  An integer is its two 32-bit words hi, lo;
\* a float is the two words of its double; a string is the sequence s of its
\* characters; "none" is an absent argument.
LVal(t, hi, lo, s) == [t |-> t, hi |-> hi, lo |-> lo, s |-> s]

LNone == LVal("none", 0, 0, <<>>)

LNil == LVal("nil", 0, 0, <<>>)

LInt(hi, lo) == LVal("int", hi, lo, <<>>)

\* lua_pushinteger(L, n) for a C int n
LInteger(n) == LInt(IF n < 0 THEN -1 ELSE 0, n)

\* lua_pushnumber(L, d) for the double with words hi, lo
LFloat(hi, lo) == LVal("flt", hi, lo, <<>>)

LStr(s) == LVal("str", 0, 0, s)

\* a C function of the library, by its name
LFunc(s) == LVal("function", 0, 0, s)

\* the buffer2.types table itself
LTable(s) == LVal("table", 0, 0, s)

Digits == <<"0", "1", "2", "3", "4", "5", "6", "7", "8", "9">>

IsDigit(c) == \E d \in 1..10 : Digits[d] = c

DigitVal(c) == (CHOOSE d \in 1..10 : Digits[d] = c) - 1

\* the string converts to a number.  The strings the scripts pass carry no
\* sign, space, point, exponent or hexadecimal prefix, so the convertible
\* ones are the decimal numerals.
IsNumeral(s) == Len(s) > 0 /\ \A i \in 1..Len(s) : IsDigit(s[i])

RECURSIVE StrToInt(_)
\* value of a decimal numeral below 2^31
StrToInt(s) ==
    IF Len(s) = 0 THEN 0
    ELSE 10 * StrToInt(SubSeq(s, 1, Len(s) - 1)) + DigitVal(s[Len(s)])

\* lua_isnumber: a number or a string convertible to a number
lua_isnumber(v) == v.t \in {"int", "flt"} \/ (v.t = "str" /\ IsNumeral(v.s))

\* lua_isstring: a string or a number
lua_isstring(v) == v.t \in {"str", "int", "flt"}

lua_isnoneornil(v) == v.t \in {"none", "nil"}

\* luaL_checkinteger: [ok, hi, lo]; ~ok is the error it raises.  A float
\* is accepted only when it has an integer value.
luaL_checkinteger(v) ==
    IF v.t = "int" THEN [ok |-> TRUE, hi |-> v.hi, lo |-> v.lo]
    ELSE IF v.t = "flt"
    THEN LET d == DoubleToInt(v.hi, v.lo)
         IN  [ok |-> d.ok, hi |-> IF d.n < 0 THEN -1 ELSE 0, lo |-> d.n]
    ELSE IF v.t = "str" /\ IsNumeral(v.s)
    THEN [ok |-> TRUE, hi |-> 0, lo |-> StrToInt(v.s)]
    ELSE [ok |-> FALSE, hi |-> 0, lo |-> 0]

\* luaL_checknumber: [ok, hi, lo], the two words of the double.  The
\* integers the scripts store fit 32 bits.
luaL_checknumber(v) ==
    CASE v.t = "flt" -> [ok |-> TRUE, hi |-> v.hi, lo |-> v.lo]
      [] v.t = "int" /\ v.hi = (IF v.lo < 0 THEN -1 ELSE 0) ->
            [ok |-> TRUE, hi |-> IntToDouble(v.lo).hi, lo |-> IntToDouble(v.lo).lo]
      [] v.t = "str" /\ IsNumeral(v.s) ->
            [ok |-> TRUE, hi |-> IntToDouble(StrToInt(v.s)).hi,
             lo |-> IntToDouble(StrToInt(v.s)).lo]
      [] v.t \notin {"flt", "int"} /\ ~(v.t = "str" /\ IsNumeral(v.s)) ->
            [ok |-> FALSE, hi |-> 0, lo |-> 0]

\* (int) x for a lua_Integer x: its low word
ToInt(x) == x.lo

\* x + d for a lua_Integer x and d in {-1, 1}, wrapping at 64 bits
LuaAdd(x, d) ==
    [hi |-> IF d = -1 /\ x.lo = 0 THEN AddInt(x.hi, -1)
            ELSE IF d = 1 /\ x.lo = -1 THEN AddInt(x.hi, 1)
            ELSE x.hi,
     lo |-> AddInt(x.lo, d)]

\* what a call of a library function or metamethod gives back: no value
\* ("none", which Lua code sees as nil), one value, an argument error on
\* argument n, or another error
Return0 == [k |-> "none", v |-> LNone, n |-> 0]

Return1(v) == [k |-> "value", v |-> v, n |-> 0]

ArgError(n) == [k |-> "argerror", v |-> LNone, n |-> n]

Error == [k |-> "error", v |-> LNone, n |-> 0]

---------------------------------------------------------------------------
(* The Lua binding: wrapper.c *)

TYPE_SIGNED == 16

TYPE_CHAR == 0

TYPE_SHORT == 1

TYPE_INT == 2

TYPE_LONG == 3

TYPE_LONGLONG == 4

TYPE_FLOAT == 5

TYPE_DOUBLE == 6

TYPE_8 == 7

TYPE_16 == 8

TYPE_32 == 9

TYPE_64 == 10

\* strings, as sequences of characters
S_char == <<"c", "h", "a", "r">>

S_short == <<"s", "h", "o", "r", "t">>

S_int == <<"i", "n", "t">>

S_signed == <<"s", "i", "g", "n", "e", "d", " ">>

S_unsigned == <<"u", "n", "s", "i", "g", "n", "e", "d", " ">>

S_size == <<"s", "i", "z", "e">>

S_length == <<"l", "e", "n", "g", "t", "h">>

S_type == <<"t", "y", "p", "e">>

S_types == <<"t", "y", "p", "e", "s">>

S_get == <<"g", "e", "t">>

S_foo == <<"f", "o", "o">>

\* the list typeFromArg hands to findstr: char, short, int, long,
\* long long, float, double, 8, int8, 16, int16, 32, int32, 64, int64
TypeNameList ==
    <<[val |-> TYPE_CHAR, str |-> S_char],
      [val |-> TYPE_SHORT, str |-> S_short],
      [val |-> TYPE_INT, str |-> S_int],
      [val |-> TYPE_LONG, str |-> <<"l", "o", "n", "g">>],
      [val |-> TYPE_LONGLONG, str |-> <<"l", "o", "n", "g", " ", "l", "o", "n", "g">>],
      [val |-> TYPE_FLOAT, str |-> <<"f", "l", "o", "a", "t">>],
      [val |-> TYPE_DOUBLE, str |-> <<"d", "o", "u", "b", "l", "e">>],
      [val |-> TYPE_8, str |-> <<"8">>],
      [val |-> TYPE_8, str |-> <<"i", "n", "t", "8">>],
      [val |-> TYPE_16, str |-> <<"1", "6">>],
      [val |-> TYPE_16, str |-> <<"i", "n", "t", "1", "6">>],
      [val |-> TYPE_32, str |-> <<"3", "2">>],
      [val |-> TYPE_32, str |-> <<"i", "n", "t", "3", "2">>],
      [val |-> TYPE_64, str |-> <<"6", "4">>],
      [val |-> TYPE_64, str |-> <<"i", "n", "t", "6", "4">>]>>

\* the buffer2.types table setupLib fills, under the same names
types ==
    <<[val |-> TYPE_CHAR, str |-> S_char],
      [val |-> TYPE_SHORT, str |-> S_short],
      [val |-> TYPE_INT, str |-> S_int],
      [val |-> TYPE_LONG, str |-> <<"l", "o", "n", "g">>],
      [val |-> TYPE_LONGLONG, str |-> <<"l", "o", "n", "g", " ", "l", "o", "n", "g">>],
      [val |-> TYPE_FLOAT, str |-> <<"f", "l", "o", "a", "t">>],
      [val |-> TYPE_DOUBLE, str |-> <<"d", "o", "u", "b", "l", "e">>],
      [val |-> TYPE_8, str |-> <<"8">>],
      [val |-> TYPE_8, str |-> <<"i", "n", "t", "8">>],
      [val |-> TYPE_16, str |-> <<"1", "6">>],
      [val |-> TYPE_16, str |-> <<"i", "n", "t", "1", "6">>],
      [val |-> TYPE_32, str |-> <<"3", "2">>],
      [val |-> TYPE_32, str |-> <<"i", "n", "t", "3", "2">>],
      [val |-> TYPE_64, str |-> <<"6", "4">>],
      [val |-> TYPE_64, str |-> <<"i", "n", "t", "6", "4">>]>>

\* the names setupLib registers in the library: new, calloc, getsize,
\* setsize, getlength, setlength, gettype, settype, get, set, iter
lib ==
    {<<"n", "e", "w">>,
     <<"c", "a", "l", "l", "o", "c">>,
     <<"g", "e", "t", "s", "i", "z", "e">>,
     <<"s", "e", "t", "s", "i", "z", "e">>,
     <<"g", "e", "t", "l", "e", "n", "g", "t", "h">>,
     <<"s", "e", "t", "l", "e", "n", "g", "t", "h">>,
     <<"g", "e", "t", "t", "y", "p", "e">>,
     <<"s", "e", "t", "t", "y", "p", "e">>,
     S_get,
     <<"s", "e", "t">>,
     <<"i", "t", "e", "r">>}

\* the element kinds of the build
Kinds ==
    {TYPE_CHAR, TYPE_SHORT, TYPE_INT, TYPE_LONG, TYPE_LONGLONG, TYPE_FLOAT,
     TYPE_DOUBLE, TYPE_8, TYPE_16, TYPE_32, TYPE_64}

isValidType(type) ==
    /\ BitAnd(type, 31) = type
    /\ BitAnd(type, 15) \in Kinds

startswith(str, beginning) ==
    /\ Len(str) >= Len(beginning)
    /\ SubSeq(str, 1, Len(beginning)) = beginning

\* the val of the first entry of list whose str is str, -1 when there is none
findstr(str, list) ==
    IF \E i \in 1..Len(list) : list[i].str = str
    THEN list[CHOOSE i \in 1..Len(list) :
                 /\ list[i].str = str
                 /\ \A j \in 1..(i - 1) : list[j].str # str].val
    ELSE -1

\* typeFromArg(L, buf, arg) on the argument v; hasBuf is buf != NULL.
\* [ok, type]: ~ok is the argument error it raises on arg
\* typeFromArg taking any integer for a type code
typeFromArg_anyCode(b, hasBuf, v) ==
    IF lua_isnumber(v)
    THEN LET c == luaL_checkinteger(v)
         IN  IF c.ok
             THEN [ok |-> TRUE, type |-> ToInt(c)]
             ELSE [ok |-> FALSE, type |-> -1]
    ELSE IF lua_isstring(v)
    THEN LET signedness == IF startswith(v.s, S_signed) THEN 1 ELSE 0
             str == IF signedness = 1 THEN SubSeq(v.s, 8, Len(v.s))
                    ELSE IF startswith(v.s, S_unsigned)
                    THEN SubSeq(v.s, 10, Len(v.s))
                    ELSE v.s
             type == findstr(str, TypeNameList)
             signedType == BitOr(type, ShiftLeft(signedness, 4))
         IN  IF type # -1 /\ isValidType(signedType)
             THEN [ok |-> TRUE, type |-> signedType]
             ELSE [ok |-> FALSE, type |-> -1]
    ELSE IF lua_isnoneornil(v) /\ hasBuf
    THEN [ok |-> TRUE, type |-> BitAnd(b.user, 31)]
    ELSE [ok |-> FALSE, type |-> -1]

typeFromArg(b, hasBuf, v) ==
    IF lua_isnumber(v)
    THEN LET c == luaL_checkinteger(v)
         IN  IF c.ok /\ isValidType(ToInt(c))
             THEN [ok |-> TRUE, type |-> ToInt(c)]
             ELSE [ok |-> FALSE, type |-> -1]
    ELSE IF lua_isstring(v)
    THEN LET signedness == IF startswith(v.s, S_signed) THEN 1 ELSE 0
             str == IF signedness = 1 THEN SubSeq(v.s, 8, Len(v.s))
                    ELSE IF startswith(v.s, S_unsigned)
                    THEN SubSeq(v.s, 10, Len(v.s))
                    ELSE v.s
             type == findstr(str, TypeNameList)
             signedType == BitOr(type, ShiftLeft(signedness, 4))
         IN  IF type # -1 /\ isValidType(signedType)
             THEN [ok |-> TRUE, type |-> signedType]
             ELSE [ok |-> FALSE, type |-> -1]
    ELSE IF lua_isnoneornil(v) /\ hasBuf
    THEN [ok |-> TRUE, type |-> BitAnd(b.user, 31)]
    ELSE [ok |-> FALSE, type |-> -1]

\* sizeof of the element type, -1 for an unknown kind
typeSize(type) ==
    LET kind == BitAnd(type, 15)
    IN  CASE kind \in {TYPE_CHAR, TYPE_8} -> 1
          [] kind \in {TYPE_SHORT, TYPE_16} -> 2
          [] kind \in {TYPE_INT, TYPE_FLOAT, TYPE_32} -> 4
          [] kind \in {TYPE_LONG, TYPE_LONGLONG, TYPE_DOUBLE, TYPE_64} -> 8
          [] OTHER -> -1

\* buffer_getSize(buf)/sizeof(type) returned as an int.  The division is
\* unsigned (size_t); for a size below 0 the int it is cut to is still the
\* floor of size / sizeof, every sizeof being a power of two.
getLength(b, type) ==
    IF typeSize(type) = -1 THEN -1 ELSE b.size \div typeSize(type)

\* the w bytes at offset off of the buffer's block; an untracked byte is 0
\* in a block known to be zero there, and junk otherwise
ReadBytes(b, h, off, w, junk) ==
    LET o == h[b.ptr]
    IN  IF off + w <= Len(o.data) THEN SubSeq(o.data, off + 1, off + w)
        ELSE [i \in 1..w |-> IF o.rest = "zero" THEN 0 ELSE junk]

\* the heap after storing the bytes bs at offset off of the buffer's block
WriteBytes(b, h, off, bs) ==
    LET o == h[b.ptr]
    IN  IF off + Len(bs) <= Len(o.data)
        THEN [h EXCEPT ![b.ptr].data =
                 [i \in 1..Len(o.data) |->
                     IF i > off /\ i <= off + Len(bs) THEN bs[i - off]
                     ELSE o.data[i]]]
        ELSE [h EXCEPT ![b.ptr].rest =
                 IF \A i \in 1..Len(bs) : bs[i] = 0 THEN @ ELSE "indet"]

\* buffer_get reading every integer as unsigned
buffer_get_unsigned(bs, type) ==
    LET w == Len(bs)
        kind == BitAnd(type, 15)
        ext == [i \in 1..8 |-> IF i <= w THEN bs[i] ELSE 0]
    IN  IF kind = TYPE_FLOAT
        THEN LFloat(FloatToDouble(Word32(bs)).hi, FloatToDouble(Word32(bs)).lo)
        ELSE IF kind = TYPE_DOUBLE
        THEN LFloat(Word32(SubSeq(bs, 5, 8)), Word32(SubSeq(bs, 1, 4)))
        ELSE LInt(Word32(SubSeq(ext, 5, 8)), Word32(SubSeq(ext, 1, 4)))

\* lua_pushinteger / lua_pushnumber of buffer_get(buf, idx, T): the Lua
\* value of the element whose bytes are bs, read as type
buffer_get(bs, type) ==
    LET w == Len(bs)
        kind == BitAnd(type, 15)
        neg == BitAnd(type, TYPE_SIGNED) # 0 /\ bs[w] >= 128
        ext == [i \in 1..8 |-> IF i <= w THEN bs[i] ELSE IF neg THEN 255 ELSE 0]
    IN  IF kind = TYPE_FLOAT
        THEN LFloat(FloatToDouble(Word32(bs)).hi, FloatToDouble(Word32(bs)).lo)
        ELSE IF kind = TYPE_DOUBLE
        THEN LFloat(Word32(SubSeq(bs, 5, 8)), Word32(SubSeq(bs, 1, 4)))
        ELSE LInt(Word32(SubSeq(ext, 5, 8)), Word32(SubSeq(ext, 1, 4)))

\* (T) luaL_checkinteger(L, 3) or (T) luaL_checknumber(L, 3): [ok, bytes],
\* the bytes buffer_set stores for the value v; ~ok is the error raised on v
buffer_set(v, type) ==
    LET kind == BitAnd(type, 15)
        n == luaL_checknumber(v)
        c == luaL_checkinteger(v)
    IN  IF kind \in {TYPE_FLOAT, TYPE_DOUBLE}
        THEN IF ~n.ok THEN [ok |-> FALSE, bytes |-> <<>>]
             ELSE IF kind = TYPE_DOUBLE
             THEN [ok |-> TRUE, bytes |-> Bytes32(n.lo) \o Bytes32(n.hi)]
             ELSE [ok |-> TRUE, bytes |-> Bytes32(DoubleToFloat(n.hi, n.lo))]
        ELSE IF ~c.ok THEN [ok |-> FALSE, bytes |-> <<>>]
             ELSE [ok |-> TRUE,
                   bytes |-> SubSeq(Bytes32(c.lo) \o Bytes32(c.hi), 1,
                                    typeSize(type))]

\* the userdata a creator returns
LBuffer == LVal("buffer", 0, 0, <<>>)

\* each api_ / meta_ function gives [buf, heap, res]: the buffer_t, the
\* heap and what the call gives back to Lua

\* settype without the mask on the old tag
api_bufferSetType_noMask(b, h, t) ==
    LET ty == typeFromArg(b, TRUE, t)
        user == b.user
    IN  IF ~ty.ok THEN [buf |-> b, heap |-> h, res |-> ArgError(2)]
        ELSE [buf |-> [b EXCEPT !.user = BitOr(user, ty.type)], heap |-> h,
              res |-> Return0]

api_bufferSetType(b, h, t) ==
    LET ty == typeFromArg(b, TRUE, t)
        user == BitAnd(b.user, -32)
    IN  IF ~ty.ok THEN [buf |-> b, heap |-> h, res |-> ArgError(2)]
        ELSE [buf |-> [b EXCEPT !.user = BitOr(user, ty.type)], heap |-> h,
              res |-> Return0]

api_bufferGetType(b, h) ==
    [buf |-> b, heap |-> h, res |-> Return1(LInteger(BitAnd(b.user, 31)))]

\* on an error the new userdata carries no metatable: no buffer is visible
api_bufferNew(h, a1, m) ==
    LET c == luaL_checkinteger(a1)
        size == ToInt(c)
        r == buffer_allocData(RawBuf, h, size, 0, m)
    IN  IF ~c.ok \/ size <= 0
        THEN [buf |-> RawBuf, heap |-> h, res |-> ArgError(1)]
        ELSE IF ~r.ret
        THEN [buf |-> [r.buf EXCEPT !.alloc = 0], heap |-> r.heap,
              res |-> Error]
        ELSE [buf |-> r.buf, heap |-> r.heap, res |-> Return1(LBuffer)]

api_bufferCalloc(h, a1, a2, m) ==
    LET c == luaL_checkinteger(a1)
        len == ToInt(c)
        e == luaL_checkinteger(a2)
        ty == typeFromArg(RawBuf, FALSE, a2)
        type == IF lua_isnumber(a2) THEN BitOr(0, TYPE_CHAR) ELSE ty.type
        elem == IF lua_isnumber(a2) THEN ToInt(e) ELSE typeSize(ty.type)
        r == buffer_callocData(RawBuf, h, len, elem, 0, m)
        s == api_bufferSetType(r.buf, r.heap, LInteger(type))
    IN  IF ~c.ok \/ len <= 0
        THEN [buf |-> RawBuf, heap |-> h, res |-> ArgError(1)]
        ELSE IF lua_isnumber(a2) /\ ~e.ok
        THEN [buf |-> RawBuf, heap |-> h, res |-> ArgError(2)]
        ELSE IF ~lua_isnumber(a2) /\ ~ty.ok
        THEN [buf |-> RawBuf, heap |-> h, res |-> ArgError(2)]
        ELSE IF elem <= 0
        THEN [buf |-> RawBuf, heap |-> h, res |-> ArgError(2)]
        ELSE IF ~r.ret
        THEN [buf |-> [r.buf EXCEPT !.alloc = 0], heap |-> r.heap,
              res |-> Error]
        ELSE [buf |-> s.buf, heap |-> s.heap,
              res |-> IF s.res.k = "none" THEN Return1(LBuffer) ELSE s.res]

api_bufferGetSize(b, h) ==
    [buf |-> b, heap |-> h, res |-> Return1(LInteger(b.size))]

api_bufferSetSize(b, h, a2, m) ==
    LET c == luaL_checkinteger(a2)
        size == ToInt(c)
        r == buffer_resize(b, h, size, m)
    IN  IF ~c.ok \/ size <= 0
        THEN [buf |-> b, heap |-> h, res |-> ArgError(2)]
        ELSE [buf |-> r.buf, heap |-> r.heap,
              res |-> IF r.ret = 0 THEN Error ELSE Return0]

api_bufferGetLength(b, h, t) ==
    LET ty == typeFromArg(b, TRUE, t)
        len == getLength(b, ty.type)
    IN  IF ~ty.ok THEN [buf |-> b, heap |-> h, res |-> ArgError(2)]
        ELSE IF len = -1 THEN [buf |-> b, heap |-> h, res |-> Error]
        ELSE [buf |-> b, heap |-> h, res |-> Return1(LInteger(len))]

api_bufferSetLength(b, h, a2, t, m) ==
    LET c == luaL_checkinteger(a2)
        len == ToInt(c)
        ty == typeFromArg(b, TRUE, t)
        size == typeSize(ty.type)
        r == buffer_resize(b, h, MulInt(size, len), m)
    IN  IF ~c.ok THEN [buf |-> b, heap |-> h, res |-> ArgError(2)]
        ELSE IF ~ty.ok THEN [buf |-> b, heap |-> h, res |-> ArgError(3)]
        ELSE IF size = -1 THEN [buf |-> b, heap |-> h, res |-> Error]
        ELSE IF len <= 0 THEN [buf |-> b, heap |-> h, res |-> ArgError(2)]
        ELSE [buf |-> r.buf, heap |-> r.heap,
              res |-> IF r.ret = 0 THEN Error ELSE Return0]

\* junk is the value an indeterminate untracked byte turns out to have
api_bufferGet(b, h, a2, t, junk) ==
    LET c == luaL_checkinteger(a2)
        idx == ToInt(LuaAdd(c, -1))
        ty == typeFromArg(b, TRUE, t)
        w == typeSize(ty.type)
    IN  IF ~c.ok THEN [buf |-> b, heap |-> h, res |-> ArgError(2)]
        ELSE IF ~ty.ok THEN [buf |-> b, heap |-> h, res |-> ArgError(3)]
        ELSE IF idx < 0 \/ idx >= getLength(b, ty.type)
        THEN [buf |-> b, heap |-> h, res |-> Return0]
        ELSE [buf |-> b, heap |-> h,
              res |-> Return1(buffer_get(ReadBytes(b, h, idx * w, w, junk),
                                         ty.type))]

api_bufferSet(b, h, a2, a3, t) ==
    LET c == luaL_checkinteger(a2)
        idx == ToInt(LuaAdd(c, -1))
        ty == typeFromArg(b, TRUE, t)
        w == typeSize(ty.type)
        val == buffer_set(a3, ty.type)
    IN  IF ~c.ok THEN [buf |-> b, heap |-> h, res |-> ArgError(2)]
        ELSE IF ~ty.ok THEN [buf |-> b, heap |-> h, res |-> ArgError(4)]
        ELSE IF idx < 0 \/ idx >= getLength(b, ty.type)
        THEN [buf |-> b, heap |-> h, res |-> Return0]
        ELSE IF ~val.ok THEN [buf |-> b, heap |-> h, res |-> ArgError(3)]
        ELSE [buf |-> b, heap |-> WriteBytes(b, h, idx * w, val.bytes),
              res |-> Return0]

\* b[k]: a number reads an element, a getter name calls the getter, a
\* library name gives the library entry, anything else gives nothing
meta_index(b, h, k, junk) ==
    IF lua_isnumber(k) THEN api_bufferGet(b, h, k, LNone, junk)
    ELSE IF k = LStr(S_size) THEN api_bufferGetSize(b, h)
    ELSE IF k = LStr(S_length) THEN api_bufferGetLength(b, h, LNone)
    ELSE IF k = LStr(S_type) THEN api_bufferGetType(b, h)
    ELSE IF k.t = "str" /\ k.s \in lib
    THEN [buf |-> b, heap |-> h, res |-> Return1(LFunc(k.s))]
    ELSE IF k = LStr(S_types)
    THEN [buf |-> b, heap |-> h, res |-> Return1(LTable(S_types))]
    ELSE [buf |-> b, heap |-> h, res |-> Return0]

\* b[k] = v: a number writes an element, a setter name calls the setter,
\* anything else is ignored
meta_newindex(b, h, k, v, m) ==
    IF lua_isnumber(k) THEN api_bufferSet(b, h, k, v, LNone)
    ELSE IF k = LStr(S_size) THEN api_bufferSetSize(b, h, v, m)
    ELSE IF k = LStr(S_length) THEN api_bufferSetLength(b, h, v, LNone, m)
    ELSE IF k = LStr(S_type) THEN api_bufferSetType(b, h, v)
    ELSE [buf |-> b, heap |-> h, res |-> Return0]

meta_len(b, h) == api_bufferGetLength(b, h, LNone)

meta_gc(b, h) == buffer_destroyData(b, h)

\* ipairs(b): the three results are the iterator, the buffer and ctl
meta_ipairs(b, h) ==
    [buf |-> b, heap |-> h, res |-> Return1(LFunc(<<"i", "t", "e", "r">>)),
     ctl |-> LInteger(0)]

\* iter without the step to the next index
other_iter_noStep(b, h, a2, junk) ==
    LET c == luaL_checkinteger(a2)
        idx == LInt(c.hi, c.lo)
        g == CHOOSE x \in {meta_index(b, h, i, junk) : i \in {idx}} : TRUE
        val == IF g.res.k = "value" THEN g.res.v ELSE LNil
    IN  IF ~c.ok
        THEN [buf |-> b, heap |-> h, res |-> ArgError(2), second |-> LNone]
        ELSE IF g.res.k \in {"argerror", "error"}
        THEN [buf |-> g.buf, heap |-> g.heap, res |-> g.res, second |-> LNone]
        ELSE IF val.t # "nil"
        THEN [buf |-> g.buf, heap |-> g.heap, res |-> Return1(idx),
              second |-> val]
        ELSE [buf |-> g.buf, heap |-> g.heap, res |-> Return1(LNil),
              second |-> LNone]

\* iter(tab, idx) on a buffer: res is the first result, second the other.
\* tab[idx + 1] goes through __index; a result that is not nil is
\* returned behind its index, nil is returned alone.  (g is what the one
\* call of lua_gettable gave.)
other_iter(b, h, a2, junk) ==
    LET c == luaL_checkinteger(a2)
        idx == LInt(LuaAdd(c, 1).hi, LuaAdd(c, 1).lo)
        g == CHOOSE x \in {meta_index(b, h, i, junk) : i \in {idx}} : TRUE
        val == IF g.res.k = "value" THEN g.res.v ELSE LNil
    IN  IF ~c.ok
        THEN [buf |-> b, heap |-> h, res |-> ArgError(2), second |-> LNone]
        ELSE IF g.res.k \in {"argerror", "error"}
        THEN [buf |-> g.buf, heap |-> g.heap, res |-> g.res, second |-> LNone]
        ELSE IF val.t # "nil"
        THEN [buf |-> g.buf, heap |-> g.heap, res |-> Return1(idx),
              second |-> val]
        ELSE [buf |-> g.buf, heap |-> g.heap, res |-> Return1(LNil),
              second |-> LNone]

---------------------------------------------------------------------------
(* Lua scripts driving the binding on one buffer: a creator, then calls   *)
(* of the library functions and index accesses on the buffer, then its    *)
(* collection.                                                            *)
(*   IndexSpec : element reads and writes on a buffer of a fixed size     *)
(*   TypeSpec  : type arguments handed to settype and getlength           *)
(*   SizeSpec  : sizes and lengths handed to the creators and resizers    *)
(*   CallocSpec: typed buffers created by calloc                          *)
(*   StoreSpec : numbers and non-numbers stored into elements             *)
(*   TagSpec   : every function and metamethod, valid and invalid types   *)
(*   LengthSpec: lengths read under several types                         *)
(*   CodecSpec : integers stored and read back under every width          *)
(*   IterSpec  : generic for loops over a buffer                          *)
(*   OwnedSpec : creators with large products, resizers and collection    *)

\* the arguments the scripts pass

\* IndexSpec.  2^32 + 1 is LInt(1, 1); LInt(INT_MIN, 0) is the least Lua
\* integer.
IndexSizes == {LInteger(1), LInteger(4)}

IndexArgs ==
    {LInteger(0), LInteger(1), LInteger(2), LInt(1, 1), LInt(INT_MIN, 0),
     LNil}

ElemTypes ==
    {LNone, LStr(S_char), LStr(S_signed \o S_short), LInteger(TYPE_32)}

SetVals == {LInteger(7), LNil}

IndexKeys == IndexArgs \cup {LStr(S_size), LStr(S_get)}

NewIndexKeys == IndexArgs \cup {LStr(S_foo)}

\* TypeSpec: every name of the types table, bare and behind "signed ", an
\* "unsigned " name, a type code, a number that is no type code, a string
\* that is no name, nil
TypeNames ==
    {LStr(types[e].str) : e \in 1..Len(types)}
        \cup {LStr(S_signed \o types[e].str) : e \in 1..Len(types)}
        \cup {LStr(S_unsigned \o S_int), LInteger(TYPE_DOUBLE), LInteger(11),
              LStr(S_foo), LNil}

\* SizeSpec.  LInt(-1, 1) is 1 - 2^32 and LInt(-1, 2) is 2 - 2^32.
NewSizes == {LInteger(0), LInteger(1), LInteger(2), LInteger(4), LInt(-1, 1)}

CallocLengths == {LInteger(0), LInteger(2), LInt(-1, 1)}

CallocElems == {LInteger(2), LStr(S_short)}

SetSizes == {LInteger(0), LInteger(2), LInteger(4), LInt(-1, 2)}

SetLengths == {LInteger(0), LInteger(1), LInteger(2), LInt(-1, 1), LInt(1, 1)}

SizeTypes == {LNone, LStr(S_char), LStr(S_short), LStr(S_foo)}

LuaNoCall ==
    [op |-> "none", a |-> LNone, b |-> LNone, c |-> LNone, ret |-> Return0,
     pre |-> RawBuf, preHeap |-> [p \in BlockIds |-> NoBlock]]

\* the library is loaded and no buffer exists yet
LuaInit ==
    /\ buf = RawBuf
    /\ heap = [p \in BlockIds |-> NoBlock]
    /\ phase = "nobuffer"
    /\ last = LuaNoCall

\* the state after a call that gave r, on a buffer that stays visible
Called(op, a, b, c, r) ==
    /\ buf' = r.buf
    /\ heap' = r.heap
    /\ phase' = phase
    /\ last' = [op |-> op, a |-> a, b |-> b, c |-> c, ret |-> r.res,
                pre |-> buf, preHeap |-> heap]

\* the state after a creator gave r: the buffer is visible when it returned
Created(op, a, b, r) ==
    /\ buf' = IF r.res.k = "value" THEN r.buf ELSE RawBuf
    /\ heap' = r.heap
    /\ phase' = IF r.res.k = "value" THEN "lua" ELSE phase
    /\ last' = [op |-> op, a |-> a, b |-> b, c |-> LNone, ret |-> r.res,
                pre |-> buf, preHeap |-> heap]

\* buffer2.new(size)
LuaNew(sizes) ==
    /\ phase = "nobuffer"
    /\ \E size \in sizes, m \in AllocChoices :
         Created("new", size, LNone, api_bufferNew(heap, size, m))

\* buffer2.calloc(length, elem)
LuaCalloc(lengths, elems) ==
    /\ phase = "nobuffer"
    /\ \E length \in lengths, elem \in elems, m \in AllocChoices :
         Created("calloc", length, elem, api_bufferCalloc(heap, length, elem, m))

\* buffer2.getsize(b)
LuaGetSize ==
    /\ phase = "lua"
    /\ Called("getsize", LNone, LNone, LNone, api_bufferGetSize(buf, heap))

\* buffer2.setsize(b, size)
LuaSetSize(sizes) ==
    /\ phase = "lua"
    /\ \E size \in sizes, m \in AllocChoices :
         Called("setsize", size, LNone, LNone,
                api_bufferSetSize(buf, heap, size, m))

\* buffer2.getlength(b, t)
LuaGetLength(ts) ==
    /\ phase = "lua"
    /\ \E t \in ts :
         Called("getlength", t, LNone, LNone, api_bufferGetLength(buf, heap, t))

\* buffer2.setlength(b, length, t)
LuaSetLength(lengths, ts) ==
    /\ phase = "lua"
    /\ \E length \in lengths, t \in ts, m \in AllocChoices :
         Called("setlength", length, t, LNone,
                api_bufferSetLength(buf, heap, length, t, m))

\* buffer2.gettype(b)
LuaGetType ==
    /\ phase = "lua"
    /\ Called("gettype", LNone, LNone, LNone, api_bufferGetType(buf, heap))

\* buffer2.settype(b, t)
LuaSetType(ts) ==
    /\ phase = "lua"
    /\ \E t \in ts :
         Called("settype", t, LNone, LNone, api_bufferSetType(buf, heap, t))

\* the values an untracked byte of the buffer's block can turn out to have
Junk(b, h) ==
    IF b.ptr # NULL /\ h[b.ptr].len > Len(h[b.ptr].data)
                   /\ h[b.ptr].rest = "indet"
    THEN JunkVals ELSE {0}

\* the allocator's outcomes a write under key k can meet
NewIndexChoices(k) ==
    IF k \in {LStr(S_size), LStr(S_length)} THEN AllocChoices
    ELSE {[ok |-> FALSE, inplace |-> FALSE, fill |-> 0]}

\* buffer2.get(b, i, t)
LuaGet(is, ts) ==
    /\ phase = "lua"
    /\ \E i \in is, t \in ts, junk \in Junk(buf, heap) :
         Called("get", i, t, LNone, api_bufferGet(buf, heap, i, t, junk))

\* buffer2.set(b, i, v, t)
LuaSet(is, vs, ts) ==
    /\ phase = "lua"
    /\ \E i \in is, v \in vs, t \in ts :
         Called("set", i, v, t, api_bufferSet(buf, heap, i, v, t))

\* b[k]
LuaIndex(ks) ==
    /\ phase = "lua"
    /\ \E k \in ks, junk \in Junk(buf, heap) :
         Called("index", k, LNone, LNone, meta_index(buf, heap, k, junk))

\* b[k] = v
LuaNewIndex(ks, vs) ==
    /\ phase = "lua"
    /\ \E k \in ks, v \in vs :
         \E m \in NewIndexChoices(k) :
           Called("newindex", k, v, LNone, meta_newindex(buf, heap, k, v, m))

\* #b
LuaLen ==
    /\ phase = "lua"
    /\ Called("len", LNone, LNone, LNone, meta_len(buf, heap))

\* the buffer is collected: __gc
LuaGc ==
    /\ phase = "lua"
    /\ heap' = meta_gc(buf, heap)
    /\ buf' = buf
    /\ phase' = "collected"
    /\ last' = [op |-> "gc", a |-> LNone, b |-> LNone, c |-> LNone,
                ret |-> Return0, pre |-> buf, preHeap |-> heap]

\* A generic for loop over the buffer.  In phase "loop" last.c is the
\* loop's control variable; the body of the loop leaves the buffer alone.

\* for i, v in ipairs(b) do
LuaIpairs ==
    /\ phase = "lua"
    /\ LET r == meta_ipairs(buf, heap)
       IN  /\ buf' = r.buf
           /\ heap' = r.heap
           /\ phase' = "loop"
           /\ last' = [op |-> "ipairs", a |-> LNone, b |-> LNone, c |-> r.ctl,
                       ret |-> r.res, pre |-> buf, preHeap |-> heap]

\* for i, v in buffer2.iter, b, 0 do
LuaForIter ==
    /\ phase = "lua"
    /\ UNCHANGED <<buf, heap>>
    /\ phase' = "loop"
    /\ last' = [op |-> "for", a |-> LNone, b |-> LNone, c |-> LInteger(0),
                ret |-> Return0, pre |-> buf, preHeap |-> heap]

\* one turn of the loop: the iterator is called with the buffer and the
\* control variable; a first result of nil, or an error, ends the loop, any
\* other first result becomes the control variable
LuaIter ==
    /\ phase = "loop"
    /\ \E r \in {other_iter(buf, heap, last.c, junk) : junk \in Junk(buf, heap)} :
         /\ buf' = r.buf
         /\ heap' = r.heap
         /\ phase' = IF r.res.k = "value" /\ r.res.v.t # "nil"
                     THEN "loop" ELSE "lua"
         /\ last' = [op |-> "iter", a |-> last.c, b |-> r.second,
                     c |-> r.res.v, ret |-> r.res,
                     pre |-> buf, preHeap |-> heap]

\* a script that fills a buffer of 2 or 4 bytes, read as char or short, and
\* loops over it
IterNext ==
    \/ LuaNew({LInteger(2), LInteger(4)})
    \/ LuaSetType({LStr(S_char), LStr(S_short)})
    \/ LuaSet({LInteger(1), LInteger(2)}, {LInteger(7)}, {LNone})
    \/ LuaIpairs
    \/ LuaForIter
    \/ LuaIter
    \/ LuaGc

\* a loop that has started goes on: the interpreter keeps calling the
\* iterator
IterSpec == LuaInit /\ [][IterNext]_vars /\ WF_vars(LuaIter)

IndexNext ==
    \/ LuaNew(IndexSizes)
    \/ LuaSetType(ElemTypes)
    \/ LuaGet(IndexArgs, ElemTypes)
    \/ LuaSet(IndexArgs, SetVals, ElemTypes)
    \/ LuaIndex(IndexKeys)
    \/ LuaNewIndex(NewIndexKeys, SetVals)
    \/ LuaGc

IndexSpec == LuaInit /\ [][IndexNext]_vars

TypeNext ==
    \/ LuaNew({LInteger(1)})
    \/ LuaSetType(TypeNames)
    \/ LuaGetType
    \/ LuaGetLength(TypeNames)
    \/ LuaGc

TypeSpec == LuaInit /\ [][TypeNext]_vars

\* a script that creates typed buffers with calloc and inspects them
CallocNext ==
    \/ LuaCalloc({LInteger(1), LInteger(2)}, TypeNames)
    \/ LuaGetType
    \/ LuaLen
    \/ LuaGc

CallocSpec == LuaInit /\ [][CallocNext]_vars

\* a script that stores numbers and non-numbers into a buffer of four
\* bytes: 7, the floats 2.0 and 1.5 (words 0x40000000 and 0x3FF80000), nil
StoreVals ==
    {LInteger(7), LFloat(1073741824, 0), LFloat(1073217536, 0), LNil}

StoreTypes == {LNone, LInteger(TYPE_INT), LInteger(TYPE_FLOAT)}

StoreNext ==
    \/ LuaNew({LInteger(4)})
    \/ LuaSetType(StoreTypes)
    \/ LuaSet({LInteger(1), LInteger(2)}, StoreVals, StoreTypes)
    \/ LuaGet({LInteger(1)}, StoreTypes)
    \/ LuaGc

StoreSpec == LuaInit /\ [][StoreNext]_vars

\* a script that uses every function of the library and every metamethod,
\* with valid and invalid type arguments: 11 is no kind, 34 has a bit
\* above the low five
TagTypes ==
    {LNone, LStr(S_signed \o S_short), LInteger(11), LInteger(34)}

TagNext ==
    \/ LuaNew({LInteger(2)})
    \/ LuaCalloc({LInteger(1)}, {LStr(S_short), LInteger(11)})
    \/ LuaGetSize
    \/ LuaSetSize({LInteger(0), LInteger(1)})
    \/ LuaGetLength(TagTypes)
    \/ LuaSetLength({LInteger(1)}, TagTypes)
    \/ LuaGetType
    \/ LuaSetType(TagTypes)
    \/ LuaGet({LInteger(1)}, TagTypes)
    \/ LuaSet({LInteger(1)}, {LInteger(7), LNil}, TagTypes)
    \/ LuaIndex({LInteger(1), LStr(S_type)})
    \/ LuaNewIndex({LInteger(1), LStr(S_type)}, {LInteger(11), LStr(S_short)})
    \/ LuaLen
    \/ LuaGc

TagSpec == LuaInit /\ [][TagNext]_vars

\* a script that reads the length of a buffer of 3 or 32 bytes, or of
\* 65537 elements of 65535 bytes, under several types
LengthTypes == {LNone, LStr(S_char), LStr(S_short), LStr(S_signed \o S_int)}

LengthNext ==
    \/ LuaNew({LInteger(3), LInteger(32)})
    \/ LuaCalloc({LInteger(65537)}, {LInteger(65535)})
    \/ LuaGetSize
    \/ LuaGetLength(LengthTypes)
    \/ LuaSetType(LengthTypes)
    \/ LuaIndex({LStr(S_length)})
    \/ LuaLen
    \/ LuaGc

LengthSpec == LuaInit /\ [][LengthNext]_vars

\* a script that stores 258 and -2 into a buffer of eight bytes under
\* integer types of every width, signed and unsigned, and reads them back
CodecTypes ==
    {LNone, LStr(S_signed \o S_char), LStr(S_short), LStr(S_signed \o S_short),
     LInteger(TYPE_INT), LInteger(TYPE_SIGNED + TYPE_INT),
     LInteger(TYPE_64), LInteger(TYPE_SIGNED + TYPE_64)}

CodecNext ==
    \/ LuaNew({LInteger(8)})
    \/ LuaSet({LInteger(1), LInteger(2)}, {LInteger(258), LInteger(-2)},
              CodecTypes)
    \/ LuaGet({LInteger(1), LInteger(2)}, CodecTypes)
    \/ LuaGc

CodecSpec == LuaInit /\ [][CodecNext]_vars

\* a script that creates a buffer with new or calloc, 65536 * 65536 being
\* 2^32 and 65537 * 65535 being 2^32 - 1, resizes it, reads and writes it
\* and lets it be collected
OwnedNext ==
    \/ LuaNew({LInteger(2)})
    \/ LuaCalloc({LInteger(1), LInteger(65536), LInteger(65537)},
                 {LInteger(2), LInteger(65535), LInteger(65536)})
    \/ LuaSetSize({LInteger(0), LInteger(1), LInteger(4)})
    \/ LuaSetLength({LInteger(0), LInteger(2)}, {LNone, LStr(S_short)})
    \/ LuaSetType({LStr(S_short), LStr(S_foo)})
    \/ LuaGet({LInteger(1)}, {LNone})
    \/ LuaSet({LInteger(1)}, {LInteger(7), LNil}, {LNone})
    \/ LuaGc

OwnedSpec == LuaInit /\ [][OwnedNext]_vars

SizeNext ==
    \/ LuaNew(NewSizes)
    \/ LuaCalloc(CallocLengths, CallocElems)
    \/ LuaGetSize
    \/ LuaSetSize(SetSizes)
    \/ LuaGetLength(SizeTypes)
    \/ LuaSetLength(SetLengths, SizeTypes)
    \/ LuaSetType(SizeTypes)
    \/ LuaLen
    \/ LuaGc

SizeSpec == LuaInit /\ [][SizeNext]_vars

---------------------------------------------------------------------------
(* Claims about the binding *)

\* the Lua integer i is none of 1..n
OutOfRange(i, n) == ~(i.hi = 0 /\ 1 <= i.lo /\ i.lo <= n)

\* the type a call on the buffer as it was resolves the argument t to
Resolved(t) == typeFromArg(last.pre, TRUE, t)

\* C9: for an integer index i outside 1..L, L the length of the buffer
\* under the resolved type, get(b, i, t) and b[i] give no value, and
\* set(b, i, v, t) and b[i] = v raise no error and leave the buffer_t and
\* every byte as they were.
C9_OutOfRangeIndexIgnored ==
    /\ last.op \in {"get", "index"} /\ last.a.t = "int" /\ Resolved(last.b).ok
       /\ OutOfRange(last.a, getLength(last.pre, Resolved(last.b).type)) =>
          last.ret = Return0
    /\ last.op \in {"set", "newindex"} /\ last.a.t = "int" /\ Resolved(last.c).ok
       /\ OutOfRange(last.a, getLength(last.pre, Resolved(last.c).type)) =>
          /\ last.ret = Return0
          /\ buf = last.pre
          /\ heap = last.preHeap

\* C10: for every entry N of the types table, settype(b, N) succeeds and
\* gettype(b) then gives types[N], and settype(b, "signed " .. N) succeeds
\* and gettype(b) then gives types[N] | 0x10.
C10_TypeNamesResolve ==
    \A e \in 1..Len(types) :
        /\ last.op = "settype" /\ last.a = LStr(types[e].str) =>
              /\ last.ret = Return0
              /\ api_bufferGetType(buf, heap).res
                    = Return1(LInteger(types[e].val))
        /\ last.op = "settype" /\ last.a = LStr(S_signed \o types[e].str) =>
              /\ last.ret = Return0
              /\ api_bufferGetType(buf, heap).res
                    = Return1(LInteger(BitOr(types[e].val, TYPE_SIGNED)))

\* the type argument v without its "signed " or "unsigned " prefix
BareName(v) ==
    IF startswith(v.s, S_signed) THEN SubSeq(v.s, 8, Len(v.s))
    ELSE IF startswith(v.s, S_unsigned) THEN SubSeq(v.s, 10, Len(v.s))
    ELSE v.s

\* the code the types table gives the type argument v: the integer itself,
\* or types[name] with bit 4 set behind "signed "
TableCode(v) ==
    IF v.t = "int" THEN v.lo
    ELSE BitOr(findstr(BareName(v), types),
               IF startswith(v.s, S_signed) THEN TYPE_SIGNED ELSE 0)

\* v is a valid type: a valid code, or a name of the types table
IsTypeArg(v) ==
    \/ v.t = "int" /\ v.hi = 0 /\ isValidType(v.lo)
    \/ v.t = "str" /\ findstr(BareName(v), types) # -1

\* every byte of the buffer's block is zero
AllZero ==
    /\ buf.ptr # NULL
    /\ \A i \in 1..Len(heap[buf.ptr].data) : heap[buf.ptr].data[i] = 0
    /\ heap[buf.ptr].rest = "zero"

\* C11: for a length > 0 and a valid type t, given by name or by code,
\* calloc(length, t) raises no argument error, and the buffer it returns
\* has type t, length `length` under that type, size length * width(t) and
\* only zero bytes.
C11_CallocTyped ==
    last.op = "calloc" /\ last.a.t = "int" /\ last.a.hi = 0 /\ last.a.lo > 0
                       /\ IsTypeArg(last.b) =>
        /\ last.ret.k # "argerror"
        /\ last.ret.k = "value" =>
              /\ api_bufferGetType(buf, heap).res
                    = Return1(LInteger(TableCode(last.b)))
              /\ meta_len(buf, heap).res = Return1(last.a)
              /\ buf.size = last.a.lo * typeSize(TableCode(last.b))
              /\ AllZero

\* the last call was set(b, i, v, t) with i in bounds and t resolvable
StoreCall ==
    /\ last.op = "set"
    /\ last.a.t = "int"
    /\ Resolved(last.c).ok
    /\ ~OutOfRange(last.a, getLength(last.pre, Resolved(last.c).type))

\* C12: for an in-bounds index and a resolvable type, set(b, i, v, t)
\* raises an error if and only if v is not a number; every number, integer
\* or float, integral or not, is stored without error under every type.
C12_SetRaisesIffNotNumber ==
    StoreCall =>
        /\ last.ret.k \in {"argerror", "error"} <=> ~lua_isnumber(last.b)
        /\ lua_isnumber(last.b) => last.ret = Return0

\* the Lua integer v is <= 0
NotPositive(v) == v.t = "int" /\ (v.hi < 0 \/ (v.hi = 0 /\ v.lo = 0))

\* C13: for every 64-bit Lua integer v <= 0, new(v), calloc(v, t),
\* setsize(b, v) and setlength(b, v, t) raise an argument error, the engine
\* allocates and resizes nothing, and an existing buffer keeps its size,
\* capacity, type and contents.
C13_NonPositiveRejected ==
    last.op \in {"new", "calloc", "setsize", "setlength"}
                /\ NotPositive(last.a) =>
        /\ last.ret.k = "argerror"
        /\ heap = last.preHeap
        /\ buf = last.pre

\* user tags with upper bits set, over the type the buffer had
UpperTags == {BitOr(u, BitAnd(last.pre.user, 31)) : u \in {32, 96, -32}}

\* C14: after settype(b, t) with a resolvable t the low 5 bits of the user
\* tag are the resolved code of t, which gettype returns ("signed int" gives
\* the code of int with bit 4 set); the upper 27 bits of the tag, the size,
\* the capacity, the pointer and every byte are unchanged.  With an
\* unresolvable t an argument error is raised and the tag is unchanged.
C14_SetTypeFrame ==
    last.op = "settype" =>
        IF Resolved(last.a).ok
        THEN /\ last.ret = Return0
             /\ BitAnd(buf.user, 31) = Resolved(last.a).type
             /\ api_bufferGetType(buf, heap).res
                   = Return1(LInteger(Resolved(last.a).type))
             /\ last.a = LStr(S_signed \o S_int) =>
                   BitAnd(buf.user, 31) = BitOr(TYPE_INT, TYPE_SIGNED)
             /\ BitAnd(buf.user, -32) = BitAnd(last.pre.user, -32)
             /\ \A u \in UpperTags :
                   api_bufferSetType([last.pre EXCEPT !.user = u],
                                     last.preHeap, last.a).buf
                     = [buf EXCEPT !.user = BitOr(BitAnd(u, -32),
                                                 Resolved(last.a).type)]
             /\ buf.size = last.pre.size /\ buf.alloc = last.pre.alloc
             /\ buf.ptr = last.pre.ptr
             /\ heap = last.preHeap
        ELSE /\ last.ret.k = "argerror"
             /\ buf = last.pre
             /\ heap = last.preHeap

\* settype(b, "signed int") changed the type of the buffer
C14_Witness ==
    /\ last.op = "settype"
    /\ last.a = LStr(S_signed \o S_int)
    /\ last.ret = Return0
    /\ BitAnd(last.pre.user, 31) = TYPE_DOUBLE
    /\ BitAnd(buf.user, 31) = 18

\* C15: in every state a script can reach through the library and the
\* metamethods, calls that raise errors included, the low 5 bits of the
\* buffer's user tag are a type code isValidType accepts.
C15_TagIsValidType == isValidType(BitAnd(buf.user, 31))

\* an invalid code was refused on a buffer whose type is signed short
C15_Witness ==
    /\ last.op \in {"settype", "newindex"}
    /\ LInteger(11) \in {last.a, last.b}
    /\ last.ret.k = "argerror"
    /\ BitAnd(buf.user, 31) = BitOr(TYPE_SHORT, TYPE_SIGNED)

\* C16: for every Lua integer n > 0 and every valid type t, given or the
\* buffer's current one, a successful setlength(b, n, t) leaves the size at
\* n * width(t), so that getlength(b, t) is n, and leaves the type as it
\* was.
C16_SetLengthSize ==
    last.op = "setlength" /\ last.a.t = "int" /\ ~NotPositive(last.a)
                          /\ Resolved(last.b).ok /\ last.ret = Return0 =>
        /\ last.a.hi = 0
        /\ buf.size = last.a.lo * typeSize(Resolved(last.b).type)
        /\ api_bufferGetLength(buf, heap, last.b).res = Return1(last.a)
        /\ buf.user = last.pre.user

\* what a length getter returns for a buffer of the current size read as
\* type: floor(size / width(type))
FloorLength(type) == Return1(LInteger(buf.size \div typeSize(type)))

\* C17: getlength(b, t) is floor(size / width(t)) for every valid t; #b,
\* b.length and getlength(b) are floor(size / width(current type)); and a
\* change of type alone changes the length accordingly and keeps the size.
C17_LengthIsFloor ==
    /\ last.op = "getlength" /\ Resolved(last.a).ok =>
          last.ret = FloorLength(Resolved(last.a).type)
    /\ last.op = "len" \/ (last.op = "index" /\ last.a = LStr(S_length)) =>
          last.ret = FloorLength(BitAnd(buf.user, 31))
    /\ last.op = "settype" /\ last.ret = Return0 =>
          /\ buf.size = last.pre.size
          /\ api_bufferGetLength(buf, heap, LNone).res
                = FloorLength(Resolved(last.a).type)
          /\ meta_len(buf, heap).res = FloorLength(Resolved(last.a).type)

\* C18: buffer_enlarge(b, d) has exactly the effect and the result of
\* buffer_resize(b, b.size + d), for d > 0 and d < 0; when b.size + d <= 0
\* it returns 0 and leaves size, alloc, ptr, user and all bytes unchanged.
C18_EnlargeIsResize ==
    last.op = "enlarge" =>
        /\ \E m \in AllocChoices :
              LET r == buffer_resize(last.pre, last.preHeap,
                                     last.pre.size + last.b, m)
              IN  r.buf = buf /\ r.heap = heap /\ r.ret = last.ret
        /\ last.pre.size + last.b <= 0 =>
              last.ret = 0 /\ buf = last.pre /\ heap = last.preHeap

\* a buffer was enlarged by one byte into a block of its own
C18_Witness ==
    /\ last.op = "enlarge"
    /\ last.b = 1
    /\ last.ret # 0
    /\ buf.size = last.pre.size + 1
    /\ last.pre.alloc = last.pre.size

\* #b
Length == meta_len(buf, heap).res.v.lo

\* the turn of the loop just taken gave the pair (i, b[i])
GavePair(i) ==
    /\ last.ret = Return1(LInteger(i))
    /\ \E junk \in Junk(buf, heap) :
         last.b = meta_index(buf, heap, LInteger(i), junk).res.v
    /\ phase = "loop"

\* after each turn of the loop: turn i <= #b gave (i, b[i]), turn #b + 1
\* gave nil and ended the loop, and the buffer is as it was
IterTurn ==
    last.op = "iter" =>
        /\ last.a.t = "int" /\ last.a.hi = 0
        /\ last.a.lo >= 0 /\ last.a.lo <= Length
        /\ IF last.a.lo < Length THEN GavePair(last.a.lo + 1)
           ELSE last.ret = Return1(LNil) /\ phase = "lua"
        /\ buf = last.pre /\ heap = last.preHeap

\* the turns come in ascending order from 1: the first call of the iterator
\* gets 0, every other call the index the turn before gave
IterOrder ==
    last'.op = "iter" =>
        last'.a = IF last.op \in {"ipairs", "for"} THEN LInteger(0)
                  ELSE last.ret.v

\* C19: a loop over ipairs(b), or over buffer2.iter from index 0, whose
\* body changes neither size nor type gives exactly the pairs (i, b[i]) for
\* i = 1, 2, ..., #b in ascending order, and then ends.
C19_IpairsIteration ==
    /\ [](IterTurn /\ (phase = "loop" <=> (last.op \in {"ipairs", "for"}
                                           \/ (last.op = "iter" /\ last.ret.v.t = "int"))))
    /\ [][IterOrder]_vars
    /\ (phase = "loop") ~> (phase = "lua" /\ last.op = "iter"
                                          /\ last.a = LInteger(Length))

\* a loop over a buffer of two shorts ended after its third turn
C19_Witness ==
    /\ last.op = "iter"
    /\ last.a = LInteger(2)
    /\ last.ret = Return1(LNil)
    /\ buf.size = 4 /\ BitAnd(buf.user, 31) = TYPE_SHORT
    /\ phase = "lua"

\* byte k (from 1, lowest first) of the 64-bit Lua integer v
ByteOf(v, k) ==
    IF k <= 4 THEN (v.lo \div 256^(k - 1)) % 256
    ELSE (v.hi \div 256^(k - 5)) % 256

\* v reduced to an integer type of w bytes: modulo 2^(8w) when unsigned,
\* the two's complement value when signed.  wide tells what a type of 8
\* bytes gives when unsigned.
Reduced(v, w, signed, wide) ==
    LET u == v.lo % 256^w
    IN  CASE w \in {1, 2} ->
               LInteger(IF signed /\ u >= 256^w \div 2 THEN u - 256^w ELSE u)
          [] w = 4 -> LInt(IF signed /\ v.lo < 0 THEN -1 ELSE 0, v.lo)
          [] w = 8 -> IF signed THEN v ELSE wide

\* the last call was set(b, i, v, t) with i in bounds and t an integer
\* type
CodecCall ==
    /\ StoreCall
    /\ last.b.t = "int"
    /\ BitAnd(Resolved(last.c).type, 15) \notin {TYPE_FLOAT, TYPE_DOUBLE}

\* what the claim says of the state after set(b, i, v, t)
Stored(wide) ==
    LET t == Resolved(last.c).type
        w == typeSize(t)
        off == (last.a.lo - 1) * w
        old == last.preHeap[buf.ptr].data
        char == LStr(S_char)
    IN  /\ last.ret = Return0
        /\ buf = last.pre
        /\ heap = [last.preHeap EXCEPT ![buf.ptr].data =
                      [j \in 1..Len(old) |->
                          IF j > off /\ j <= off + w
                          THEN ByteOf(last.b, j - off) ELSE old[j]]]
        /\ \A junk \in Junk(buf, heap) :
              api_bufferGet(buf, heap, last.a, last.c, junk).res
                = Return1(Reduced(last.b, w, BitAnd(t, TYPE_SIGNED) # 0, wide))
        /\ \A k \in 1..w : \A junk \in Junk(buf, heap) :
              api_bufferGet(buf, heap, LInteger(off + k), char, junk).res
                = Return1(LInteger(ByteOf(last.b, k)))

\* v modulo 2^64 as a Lua integer: there is none when v < 0
Mod64(v) == IF v.hi >= 0 THEN v ELSE LNone

\* C20 as stated: for an in-bounds index i and an integer type t of width
\* w, set(b, i, v, t) changes only the bytes (i-1)*w .. i*w-1, to the
\* native-endian encoding of v mod 2^(8w), and leaves the other bytes, the
\* size, the capacity and the type unchanged; a following get(b, i, t)
\* returns v mod 2^(8w) for an unsigned t and the two's complement value
\* for a signed t; reading the bytes as char gives the byte decomposition.
C20_SetGet_EveryWidth == CodecCall => Stored(Mod64(last.b))

\* C20 amended: the same, a type of 8 bytes giving back the two's
\* complement value of v whether signed or unsigned.
C20_SetGet == CodecCall => Stored(last.b)

\* -2 was stored as the second signed short of the buffer
C20_Witness ==
    /\ CodecCall
    /\ last.a = LInteger(2) /\ last.b = LInteger(-2)
    /\ last.c = LStr(S_signed \o S_short)
    /\ SubSeq(heap[buf.ptr].data, 3, 4) = <<254, 255>>

\* C21: a buffer visible to Lua is owned and not empty in every reachable
\* state: after any successful or failing new, calloc, setsize, setlength,
\* settype, get and set it has alloc >= size > 0 and a ptr that is not
\* null; a failed setsize / setlength leaves it as it was; and __gc
\* releases its block exactly once.
C21_VisibleBufferOwned ==
    /\ phase = "lua" =>
          /\ buf.ptr # NULL
          /\ heap[buf.ptr].st = "live"
          /\ buf.size > 0
          /\ buf.alloc >= buf.size
    /\ last.op \in {"setsize", "setlength"}
                /\ last.ret.k \in {"argerror", "error"} =>
          buf = last.pre /\ heap = last.preHeap
    /\ \A p \in BlockIds : heap[p].frees <= 1
    /\ phase = "collected" => \A p \in EngineBlocks : heap[p].frees = 1

\* buffer b over heap h has the capacity the buffer had before the last
\* call, and every byte that was below its size then
KeepsEarlier(b, h) ==
    /\ b.alloc = last.pre.alloc
    /\ \A i \in 0..(8 * MaxWords - 1) :
          HasByte(last.pre, last.preHeap, i) =>
              /\ b.ptr # NULL
              /\ i < Len(h[b.ptr].data)
              /\ ByteAt(b, h, i) = ByteAt(last.pre, last.preHeap, i)

\* the last call shrank the buffer to m = last.a; growing back from here to
\* any n within the earlier capacity, by buffer_resize or by
\* buffer_enlarge, keeps every byte below the earlier size, whatever the
\* allocator would do when asked
GrowBackKeeps ==
    ResizeCall /\ last.ret # 0 /\ 0 < last.a /\ last.a < last.pre.size =>
        \A n \in last.a..Min(last.pre.alloc, MaxSize + 1), c \in AllocChoices :
            LET r == buffer_resize(buf, heap, n, c)
                e == buffer_enlarge(buf, heap, n - buf.size, c)
            IN  /\ r.ret # 0 /\ r.buf.size = n /\ KeepsEarlier(r.buf, r.heap)
                /\ e.ret # 0 /\ e.buf.size = n /\ KeepsEarlier(e.buf, e.heap)

\* a buffer_resize / buffer_enlarge step does not lower the capacity
AllocGrows == last'.op \in {"resize", "enlarge"} => buf'.alloc >= buf.alloc

\* C22: the capacity of an initialised buffer never decreases: alloc after
\* each buffer_resize / buffer_enlarge is >= alloc before it, shrinking
\* lowers only the size, and after shrinking to m and growing back to any
\* n <= the earlier capacity every byte below the earlier size holds its
\* earlier value.
C22_CapacityNeverDecreases ==
    /\ [][AllocGrows]_vars
    /\ [](ResizeCall => buf.alloc >= last.pre.alloc)
    /\ []GrowBackKeeps

\* a buffer that had been shrunk grew back within its capacity over a byte
\* the caller had written before the shrink
C22_Witness ==
    /\ ResizeCall /\ last.ret # 0
    /\ last.pre.size < last.a /\ last.a <= last.pre.alloc
    /\ buf.alloc = last.pre.alloc
    /\ HasByte(buf, heap, last.pre.size)
    /\ ByteAt(buf, heap, last.pre.size) \in ByteVals

=============================================================================
